---------------------------- MODULE Spec2Model ----------------------------
(***************************************************************************)
(* Model of .github/scripts/ai_review.py: the AI code review step.         *)
(*                                                                         *)
(* main reads its configuration from the environment, loads and truncates  *)
(* the pull request diff, calls one of three LLM HTTP API flavours and     *)
(* writes the returned text to review_result.md.                           *)
(*                                                                         *)
(* Python values.  A dict is a function whose domain is its key set, so    *)
(* d.get(k, default) is a test on DOMAIN d.  A list is a sequence.  The    *)
(* diff text is a sequence of characters, because the code measures and    *)
(* slices it.  A JSON leaf that ends up as the review text is opaque to    *)
(* the code but its Python type matters to f.write, so it is a value       *)
(* tagged with its type: Str(s) or None.                                   *)
(***************************************************************************)
EXTENDS Naturals, Sequences, FiniteSets

VARIABLES
    environ,        \* os.environ: variable name -> value, unset names absent
    fs,             \* working directory: diff path -> kind of file found there
    cwdWritable,    \* whether review_result.md can be opened for writing
    priorResult,    \* review_result.md as it was before the run
    resultFile,     \* review_result.md now
    pc,             \* position of main
    apiType,        \* main's local apiType
    diffContent,    \* main's local diffContent, until the request carries it
    sentDiff,       \* summary of the diff text inside the request that was sent
    flavor,         \* flavour function callLlmApi dispatched to, "" if none
    posts,          \* number of client.post calls made
    response,       \* what client.post produced, [none |-> TRUE] before
    reviewContent,  \* main's local reviewContent
    exc,            \* exception in flight or last raised, [none |-> TRUE] if none
    stdout,         \* lines printed
    trunc,          \* truncateDiff applied on its own: input and result
    extr            \* a flavour's response extraction applied on its own

vars == <<environ, fs, cwdWritable, priorResult, resultFile, pc, apiType,
          diffContent, sentDiff, flavor, posts, response, reviewContent,
          exc, stdout, trunc, extr>>

mainVars == <<environ, fs, cwdWritable, priorResult, resultFile, pc, apiType,
              diffContent, sentDiff, flavor, posts, response, reviewContent,
              exc, stdout>>

-----------------------------------------------------------------------------
(* Bounds of the model *)

\* largest maxChars tried when truncateDiff is applied on its own
MaxChars == 2

\* longest diff tried when truncateDiff is applied on its own
MaxDiffLen == MaxChars + 2

\* longest top-level list (choices, content, output) in a generated body
MaxItems == 2

\* longest content list of an output item in a generated body
MaxBlocks == 2

-----------------------------------------------------------------------------
(* Python values and outcomes *)

Str(s) == [py |-> "str", v |-> s]

None == [py |-> "NoneType"]

NoValue == [none |-> TRUE]

Return(v) == [ok |-> TRUE, value |-> v]

Raise(e) == [ok |-> FALSE, exc |-> e]

SeqsUpTo(S, n) == UNION {[1..k -> S] : k \in 0..n}

-----------------------------------------------------------------------------
(* truncateDiff *)

DefaultMaxChars == 60000

\* "\n\n... (diff 过长，已截断)", one element per character
TruncationMarker ==
    <<"LF", "LF", ".", ".", ".", " ", "(", "d", "i", "f", "f", " ",
      "U+8FC7", "U+957F", "U+FF0C", "U+5DF2", "U+622A", "U+65AD", ")">>

\* faulty variant: a diff of exactly maxChars characters is cut too
truncateDiffStrict(diff, maxChars) ==
    IF Len(diff) < maxChars
    THEN diff
    ELSE SubSeq(diff, 1, maxChars) \o TruncationMarker

truncateDiff(diff, maxChars) ==
    IF Len(diff) <= maxChars
    THEN diff
    ELSE SubSeq(diff, 1, maxChars) \o TruncationMarker

-----------------------------------------------------------------------------
(* Response extraction of the three flavours *)

\* faulty variant: an empty choices is not rejected
chatExtractNoCheck(data) ==
    LET choices == IF "choices" \in DOMAIN data THEN data.choices ELSE <<>>
    IN  IF choices = <<>>
        THEN Return(Str(""))
        ELSE LET message == IF "message" \in DOMAIN choices[1]
                            THEN choices[1].message ELSE [role |-> "none"]
             IN  Return(IF "content" \in DOMAIN message
                        THEN message.content ELSE Str(""))

chatExtract(data) ==
    LET choices == IF "choices" \in DOMAIN data THEN data.choices ELSE <<>>
    IN  IF choices = <<>>
        THEN Raise([type |-> "Exception", text |-> "missing choices",
                    data |-> data])
        ELSE LET message == IF "message" \in DOMAIN choices[1]
                            THEN choices[1].message ELSE [role |-> "none"]
             IN  Return(IF "content" \in DOMAIN message
                        THEN message.content ELSE Str(""))

messagesExtract(data) ==
    LET content == IF "content" \in DOMAIN data THEN data.content ELSE <<>>
    IN  IF content = <<>>
        THEN Raise([type |-> "Exception", text |-> "missing content",
                    data |-> data])
        ELSE Return(IF "text" \in DOMAIN content[1]
                    THEN content[1].text ELSE Str(""))

\* faulty variant: the last matching block wins
RECURSIVE scanBlocksLast(_, _)
scanBlocksLast(content, j) ==
    IF j > Len(content)
    THEN NoValue
    ELSE LET later == scanBlocksLast(content, j + 1)
         IN  IF later # NoValue
             THEN later
             ELSE IF content[j].type = "output_text"
                  THEN Return(IF "text" \in DOMAIN content[j]
                              THEN content[j].text ELSE Str(""))
                  ELSE NoValue

RECURSIVE scanBlocks(_, _)
scanBlocks(content, j) ==
    IF j > Len(content)
    THEN NoValue
    ELSE IF content[j].type = "output_text"
         THEN Return(IF "text" \in DOMAIN content[j]
                     THEN content[j].text ELSE Str(""))
         ELSE scanBlocks(content, j + 1)

RECURSIVE scanOutput(_, _)
scanOutput(output, i) ==
    IF i > Len(output)
    THEN NoValue
    ELSE LET item == output[i]
             content == IF "content" \in DOMAIN item
                        THEN item.content ELSE <<>>
             found == IF item.type = "message"
                      THEN scanBlocks(content, 1) ELSE NoValue
         IN  IF found # NoValue THEN found ELSE scanOutput(output, i + 1)

responseExtract(data) ==
    IF "output_text" \in DOMAIN data
    THEN Return(data.output_text)
    ELSE LET output == IF "output" \in DOMAIN data THEN data.output ELSE <<>>
             found == scanOutput(output, 1)
         IN  IF found # NoValue
             THEN found
             ELSE Raise([type |-> "Exception", text |-> "cannot parse",
                         data |-> data])

-----------------------------------------------------------------------------
(* The HTTP exchange of a flavour function: client.post, the status check   *)
(* and response.json().  The same five lines appear in callChatApi,         *)
(* callMessagesApi and callResponseApi.                                     *)

decode(outcome) ==
    IF "raised" \in DOMAIN outcome
    THEN Raise([type |-> outcome.raised])
    ELSE IF outcome.status # 200
         THEN Raise([type |-> "Exception", text |-> "HTTP",
                     status |-> outcome.status, body |-> outcome.text])
         ELSE IF "json" \notin DOMAIN outcome
              THEN Raise([type |-> "JSONDecodeError"])
              ELSE Return(outcome.json)

\* the extraction a flavour applies to what the exchange produced
extractWith(f, outcome) ==
    LET got == decode(outcome)
    IN  IF ~got.ok THEN got
        ELSE CASE f = "chat"     -> chatExtract(got.value)
               [] f = "messages" -> messagesExtract(got.value)
               [] f = "response" -> responseExtract(got.value)

-----------------------------------------------------------------------------
(* Decoded bodies a server may answer with *)

ChatChoices ==
    { [index |-> 0],
      [index |-> 0, message |-> [role |-> "assistant"]],
      [index |-> 0, message |-> [role |-> "assistant", content |-> Str("LGTM")]],
      [index |-> 0, message |-> [role |-> "assistant", content |-> Str("B")]],
      [index |-> 0, message |-> [role |-> "assistant", content |-> None]] }

MessagesBlocks ==
    { [type |-> "text"],
      [type |-> "text", text |-> Str("Looks fine")],
      [type |-> "text", text |-> Str("B")] }

OutputBlocks ==
    { [type |-> "refusal"],
      [type |-> "output_text", text |-> Str("A")],
      [type |-> "output_text", text |-> Str("B")] }

OutputItems ==
    { [type |-> "reasoning"], [type |-> "message"] }
    \cup { [type |-> "message", content |-> c] : c \in SeqsUpTo(OutputBlocks, MaxBlocks) }

ChatBodies ==
    { [id |-> "r"] }
    \cup { [id |-> "r", choices |-> c] : c \in SeqsUpTo(ChatChoices, MaxItems) }

MessagesBodies ==
    { [id |-> "r", content |-> c] : c \in SeqsUpTo(MessagesBlocks, MaxItems) }

ResponseBodies ==
    { [id |-> "r", output |-> o] : o \in SeqsUpTo(OutputItems, MaxItems) }
    \cup { [id |-> "r", output_text |-> t] : t \in {Str("TOP"), None} }
    \cup { [id |-> "r", output_text |-> Str("TOP"),
            output |-> <<[type |-> "message",
                          content |-> <<[type |-> "output_text", text |-> Str("A")]>>]>>],
           [id |-> "r",
            output |-> <<[type |-> "message",
                          content |-> <<[type |-> "output_text"],
                                        [type |-> "output_text", text |-> Str("A")]>>]>>],
           [id |-> "r",
            output |-> <<[type |-> "message",
                          content |-> <<[type |-> "refusal"],
                                        [type |-> "output_text", text |-> None]>>]>>] }

Bodies == ChatBodies \cup MessagesBodies \cup ResponseBodies

-----------------------------------------------------------------------------
(* truncateDiff and the extractions applied on their own *)

Chars == {"a", "b"}

TruncInputs ==
    [diff : SeqsUpTo(Chars, MaxDiffLen), maxChars : 0..MaxChars]

IdleTrunc == [done |-> FALSE, diff |-> <<>>, maxChars |-> 0, result |-> <<>>]

IdleExtr == [done |-> FALSE, apiType |-> "chat", data |-> [id |-> "r"],
             result |-> NoValue]

ApplyTruncate ==
    /\ ~trunc.done
    /\ trunc' = [trunc EXCEPT !.done = TRUE,
                              !.result = truncateDiff(trunc.diff, trunc.maxChars)]
    /\ UNCHANGED <<mainVars, extr>>

ApplyChat ==
    /\ ~extr.done
    /\ extr.apiType = "chat"
    /\ extr' = [extr EXCEPT !.done = TRUE, !.result = chatExtract(extr.data)]
    /\ UNCHANGED <<mainVars, trunc>>

ApplyMessages ==
    /\ ~extr.done
    /\ extr.apiType = "messages"
    /\ extr' = [extr EXCEPT !.done = TRUE, !.result = messagesExtract(extr.data)]
    /\ UNCHANGED <<mainVars, trunc>>

ApplyResponse ==
    /\ ~extr.done
    /\ extr.apiType = "response"
    /\ extr' = [extr EXCEPT !.done = TRUE, !.result = responseExtract(extr.data)]
    /\ UNCHANGED <<mainVars, trunc>>

-----------------------------------------------------------------------------
(* The environment and the working directory main runs in *)

UNSET == "<unset>"

EnvSettings ==
    [LLM_API_KEY  : {UNSET, "", "sk-key"},
     LLM_BASE_URL : {UNSET, "", "https://llm.example/v1"},
     LLM_MODEL    : {UNSET, "", "model-1"},
     LLM_API_TYPE : {UNSET, "", "chat", "messages", "response", "grpc"},
     diff_file    : {UNSET, "custom.diff"}]

\* os.environ holding exactly the variables a setting sets
MkEnviron(c) == [n \in {m \in DOMAIN c : c[m] # UNSET} |-> c[n]]

Environs == {MkEnviron(c) : c \in EnvSettings}

Paths == {"pr_diff.txt", "custom.diff"}

\* what a diff path holds: nothing, something open() fails on (a directory,
\* a file without read permission), or a readable file
FileKinds == {"absent", "unreadable", "empty", "short", "long"}

FileContent(kind) ==
    CASE kind = "empty" -> <<>>
      [] kind = "short" -> <<"a", "b">>
      [] kind = "long"  -> [i \in 1..(DefaultMaxChars + 1) |-> "x"]

ResultFiles == {[exists |-> FALSE], [exists |-> TRUE, content |-> "OLD"]}

\* os.environ.get(name, default)
environGet(name, default) ==
    IF name \in DOMAIN environ THEN environ[name] ELSE default

\* not os.environ.get(name)
notSet(name) == name \notin DOMAIN environ \/ environ[name] = ""

\* os.path.exists(path)
pathExists(path) == path \in DOMAIN fs /\ fs[path] # "absent"

\* with open(path, encoding="utf-8", errors="ignore") as f: return f.read()
readFile(path) ==
    IF fs[path] = "unreadable"
    THEN Raise([type |-> "OSError", path |-> path])
    ELSE Return(FileContent(fs[path]))

getDiffContent ==
    LET diffFile == environGet("diff_file", "pr_diff.txt")
    IN  IF pathExists(diffFile)
        THEN readFile(diffFile)
        ELSE IF pathExists("pr_diff.txt")
             THEN readFile("pr_diff.txt")
             ELSE Return(<<>>)

-----------------------------------------------------------------------------
(* What client.post can produce *)

MainBodies ==
    { [id |-> "r"],
      [id |-> "r", choices |-> <<>>],
      [id |-> "r", choices |-> <<[index |-> 0]>>],
      [id |-> "r", choices |-> <<[index |-> 0, message |-> [role |-> "assistant"]]>>],
      [id |-> "r", choices |-> <<[index |-> 0,
           message |-> [role |-> "assistant", content |-> Str("LGTM")]]>>],
      [id |-> "r", choices |-> <<[index |-> 0,
           message |-> [role |-> "assistant", content |-> None]]>>],
      [id |-> "r", content |-> <<>>],
      [id |-> "r", content |-> <<[type |-> "text"]>>],
      [id |-> "r", content |-> <<[type |-> "text", text |-> Str("Looks fine")]>>],
      [id |-> "r", output_text |-> Str("TOP")],
      [id |-> "r", output |-> <<>>],
      [id |-> "r", output |-> <<[type |-> "reasoning"]>>],
      [id |-> "r", output |-> <<[type |-> "message",
           content |-> <<[type |-> "refusal"]>>]>>],
      [id |-> "r", output |-> <<[type |-> "message",
           content |-> <<[type |-> "output_text"]>>]>>],
      [id |-> "r", output |-> <<[type |-> "reasoning"], [type |-> "message",
           content |-> <<[type |-> "output_text", text |-> Str("OK")]>>]>>] }

HttpOutcomes ==
    { [raised |-> "ConnectError"], [raised |-> "ReadTimeout"] }
    \cup { [status |-> s, text |-> "error page"] : s \in {500, 401, 302} }
    \cup { [status |-> 200, text |-> "not json"] }
    \cup { [status |-> 200, json |-> d] : d \in MainBodies }

-----------------------------------------------------------------------------
(* main *)

print(line) == stdout' = Append(stdout, line)

\* lines 271-292: the required variables, then apiType
configureChecking(required) ==
    /\ pc = "start"
    /\ IF \E i \in 1..Len(required) : notSet(required[i])
       THEN LET first == CHOOSE i \in 1..Len(required) :
                             /\ notSet(required[i])
                             /\ \A k \in 1..(i - 1) : ~notSet(required[k])
            IN  /\ print([line |-> "Error: not set", name |-> required[first]])
                /\ pc' = "done"
                /\ UNCHANGED apiType
       ELSE /\ apiType' = environGet("LLM_API_TYPE", "chat")
            /\ pc' = "load"
            /\ UNCHANGED stdout
    /\ UNCHANGED <<environ, fs, cwdWritable, priorResult, resultFile,
                   diffContent, sentDiff, flavor, posts, response,
                   reviewContent, exc, trunc, extr>>

\* faulty variant: LLM_MODEL is not required
configureSkippingModel ==
    configureChecking(<<"LLM_API_KEY", "LLM_BASE_URL">>)

configure ==
    configureChecking(<<"LLM_API_KEY", "LLM_BASE_URL", "LLM_MODEL">>)

\* lines 294-297; `reviewEmpty` is whether an empty diff still goes on
loadDiffWith(got, reviewEmpty) ==
    /\ pc = "load"
    /\ IF ~got.ok
       THEN /\ exc' = got.exc
            /\ pc' = "crashed"
            /\ UNCHANGED <<diffContent, stdout>>
       ELSE IF got.value = <<>> /\ ~reviewEmpty
            THEN /\ print([line |-> "No diff content found, skipping review"])
                 /\ pc' = "done"
                 /\ UNCHANGED <<diffContent, exc>>
            ELSE /\ diffContent' = got.value
                 /\ pc' = "truncate"
                 /\ UNCHANGED <<exc, stdout>>
    /\ UNCHANGED <<environ, fs, cwdWritable, priorResult, resultFile, apiType,
                   sentDiff, flavor, posts, response, reviewContent,
                   trunc, extr>>

\* faulty variant: an empty diff is reviewed all the same
loadDiffNoSkip == loadDiffWith(getDiffContent, TRUE)

loadDiff == loadDiffWith(getDiffContent, FALSE)

\* lines 299-315: truncate, then render the user message around the diff
prepare ==
    /\ pc = "truncate"
    /\ diffContent' = truncateDiff(diffContent, DefaultMaxChars)
    /\ pc' = "try"
    /\ UNCHANGED <<environ, fs, cwdWritable, priorResult, resultFile, apiType,
                   sentDiff, flavor, posts, response, reviewContent, exc,
                   stdout, trunc, extr>>

VALID_API_TYPES == {"chat", "messages", "response"}

\* lines 257-267
dispatch(validate) ==
    /\ pc = "try"
    /\ IF validate /\ apiType \notin VALID_API_TYPES
       THEN /\ exc' = [type |-> "ValueError", apiType |-> apiType]
            /\ pc' = "except"
            /\ UNCHANGED <<flavor, stdout>>
       ELSE /\ print([line |-> "Using API type", apiType |-> apiType])
            /\ flavor' = IF apiType = "messages" THEN "messages"
                         ELSE IF apiType = "response" THEN "response"
                         ELSE "chat"
            /\ pc' = "post"
            /\ UNCHANGED exc
    /\ UNCHANGED <<environ, fs, cwdWritable, priorResult, resultFile, apiType,
                   diffContent, sentDiff, posts, response, reviewContent,
                   trunc, extr>>

\* faulty variant: an unknown apiType falls through to the chat branch
callLlmApiFallingBack == dispatch(FALSE)

callLlmApi == dispatch(TRUE)

\* what the request carries of the diff: its length and whether it ends
\* with the truncation marker
summary(diff) ==
    [len |-> Len(diff),
     marked |-> /\ Len(diff) >= Len(TruncationMarker)
                /\ SubSeq(diff, Len(diff) - Len(TruncationMarker) + 1, Len(diff))
                       = TruncationMarker]

\* a flavour function: one exchange, then the extraction; `again` is the
\* number of further requests made after a failed exchange
callFlavor(f, again) ==
    /\ pc = "post"
    /\ flavor = f
    /\ \E outcome \in HttpOutcomes :
          LET got == extractWith(f, outcome)
          IN  /\ response' = outcome
              /\ posts' = posts + 1 + (IF decode(outcome).ok THEN 0 ELSE again)
              /\ IF got.ok
                 THEN /\ reviewContent' = got.value
                      /\ pc' = "write"
                      /\ UNCHANGED exc
                 ELSE /\ exc' = got.exc
                      /\ pc' = "except"
                      /\ UNCHANGED reviewContent
    /\ sentDiff' = summary(diffContent)
    /\ diffContent' = <<>>    \* not read again once the request is sent
    /\ UNCHANGED <<environ, fs, cwdWritable, priorResult, resultFile, apiType,
                   flavor, stdout, trunc, extr>>

\* faulty variant: a failed exchange is tried once more
callChatApiRetrying == callFlavor("chat", 1)

callChatApi == callFlavor("chat", 0)

callMessagesApi == callFlavor("messages", 0)

callResponseApi == callFlavor("response", 0)

\* lines 329-330: open(..., "w") creates or empties the file, then f.write
writeResult ==
    /\ pc = "write"
    /\ IF ~cwdWritable
       THEN /\ exc' = [type |-> "PermissionError", path |-> "review_result.md"]
            /\ pc' = "except"
            /\ UNCHANGED resultFile
       ELSE IF reviewContent.py # "str"
            THEN /\ resultFile' = [exists |-> TRUE, content |-> ""]
                 /\ exc' = [type |-> "TypeError", got |-> reviewContent.py]
                 /\ pc' = "except"
            ELSE /\ resultFile' = [exists |-> TRUE, content |-> reviewContent.v]
                 /\ pc' = "report"
                 /\ UNCHANGED exc
    /\ UNCHANGED <<environ, fs, cwdWritable, priorResult, apiType, diffContent,
                   sentDiff, flavor, posts, response, reviewContent, stdout,
                   trunc, extr>>

\* lines 332-333
report ==
    /\ pc = "report"
    /\ stdout' = stdout \o <<[line |-> "Review completed successfully!"],
                             [line |-> "review", text |-> reviewContent]>>
    /\ pc' = "done"
    /\ UNCHANGED <<environ, fs, cwdWritable, priorResult, resultFile, apiType,
                   diffContent, sentDiff, flavor, posts, response,
                   reviewContent, exc, trunc, extr>>

\* lines 335-336; `save` is whether the handler also writes the result file
handle(save) ==
    /\ pc = "except"
    /\ print([line |-> "Error calling LLM API", e |-> exc])
    /\ resultFile' = IF save THEN [exists |-> TRUE, content |-> ""]
                     ELSE resultFile
    /\ pc' = "done"
    /\ UNCHANGED <<environ, fs, cwdWritable, priorResult, apiType, diffContent,
                   sentDiff, flavor, posts, response, reviewContent, exc,
                   trunc, extr>>

\* faulty variant: the handler leaves an empty result file behind
handleExceptionSaving == handle(TRUE)

handleException == handle(FALSE)

-----------------------------------------------------------------------------
(* Specifications *)

MainInit(start) ==
    /\ resultFile = priorResult
    /\ pc = start
    /\ apiType = ""
    /\ diffContent = <<>>
    /\ sentDiff = NoValue
    /\ flavor = ""
    /\ posts = 0
    /\ response = NoValue
    /\ reviewContent = NoValue
    /\ exc = NoValue
    /\ stdout = <<>>

Init ==
    /\ environ \in Environs
    /\ fs \in [Paths -> FileKinds]
    /\ cwdWritable \in BOOLEAN
    /\ priorResult \in ResultFiles
    /\ MainInit("start")
    /\ trunc = IdleTrunc
    /\ extr = IdleExtr

Next ==
    \/ configure
    \/ loadDiff
    \/ prepare
    \/ callLlmApi
    \/ callChatApi
    \/ callMessagesApi
    \/ callResponseApi
    \/ writeResult
    \/ report
    \/ handleException

Spec == Init /\ [][Next]_vars

\* main not running: the state the functions are applied on their own in
MainIdle ==
    /\ environ = MkEnviron([LLM_API_KEY |-> UNSET])
    /\ fs = [p \in Paths |-> "absent"]
    /\ cwdWritable = TRUE
    /\ priorResult = [exists |-> FALSE]
    /\ MainInit("idle")

InitTruncate ==
    /\ MainIdle
    /\ trunc \in {[done |-> FALSE, diff |-> i.diff, maxChars |-> i.maxChars,
                   result |-> <<>>] : i \in TruncInputs}
    /\ extr = IdleExtr

NextTruncate == ApplyTruncate

SpecTruncate == InitTruncate /\ [][NextTruncate]_vars

InitExtract ==
    /\ MainIdle
    /\ trunc = IdleTrunc
    /\ extr \in {[done |-> FALSE, apiType |-> f, data |-> d, result |-> NoValue] :
                    f \in VALID_API_TYPES, d \in Bodies}

NextExtract ==
    \/ ApplyChat
    \/ ApplyMessages
    \/ ApplyResponse

SpecExtract == InitExtract /\ [][NextExtract]_vars

-----------------------------------------------------------------------------
(* Vocabulary of the properties, stated on the inputs of the run *)

Required == {"LLM_API_KEY", "LLM_BASE_URL", "LLM_MODEL"}

ConfigPresent ==
    \A n \in Required : n \in DOMAIN environ /\ environ[n] # ""

ConfiguredPath ==
    IF "diff_file" \in DOMAIN environ THEN environ["diff_file"] ELSE "pr_diff.txt"

PathRead ==
    IF fs[ConfiguredPath] # "absent" THEN ConfiguredPath ELSE "pr_diff.txt"

DiffEmpty ==
    \/ fs[ConfiguredPath] = "absent" /\ fs["pr_diff.txt"] = "absent"
    \/ fs[PathRead] = "empty"

DiffNonEmpty == fs[PathRead] \in {"short", "long"}

TypeRecognized ==
    \/ "LLM_API_TYPE" \notin DOMAIN environ
    \/ environ["LLM_API_TYPE"] \in {"chat", "messages", "response"}

LastLine == stdout[Len(stdout)]

ErrorReported ==
    /\ Len(stdout) > 0
    /\ LastLine = [line |-> "Error calling LLM API", e |-> exc]

\* the adapter call was made and raised instead of returning
AdapterFailed ==
    /\ pc \in {"except", "done"}
    /\ exc # NoValue
    /\ reviewContent = NoValue

\* C1: when the adapter call fails, main prints a diagnostic carrying the
\* error and review_result.md is as it was before the run (absent, or with
\* its prior content).
C1_AdapterFailureLeavesFile ==
    AdapterFailed =>
        /\ resultFile = priorResult
        /\ pc = "done" => ErrorReported

C1_Witness ==
    /\ pc = "done"
    /\ AdapterFailed
    /\ priorResult = [exists |-> TRUE, content |-> "OLD"]
    /\ "status" \in DOMAIN response
    /\ response.status = 500

\* C2: with one of the three required variables unset or empty, main makes
\* no HTTP request, leaves review_result.md alone and ends after printing
\* the diagnostic, whatever the rest of the environment and the diff are.
C2_MissingConfigStops ==
    ~ConfigPresent =>
        /\ posts = 0
        /\ resultFile = priorResult
        /\ pc \in {"start", "done"}
        /\ pc = "done" => /\ Len(stdout) = 1
                          /\ stdout[1].line = "Error: not set"
                          /\ stdout[1].name \in Required

C2_Witness ==
    /\ pc = "done"
    /\ "LLM_API_KEY" \in DOMAIN environ /\ environ["LLM_API_KEY"] # ""
    /\ "LLM_BASE_URL" \in DOMAIN environ /\ environ["LLM_BASE_URL"] # ""
    /\ "LLM_MODEL" \in DOMAIN environ /\ environ["LLM_MODEL"] = ""
    /\ DiffNonEmpty
    /\ TypeRecognized
    /\ stdout = <<[line |-> "Error: not set", name |-> "LLM_MODEL"]>>

\* C3: with an empty diff (neither path exists, or the file read has zero
\* length) main never reaches the adapter: no flavour is dispatched, no HTTP
\* request is made and review_result.md is left alone.
C3_EmptyDiffSkips ==
    DiffEmpty =>
        /\ posts = 0
        /\ flavor = ""
        /\ resultFile = priorResult
        /\ pc \in {"start", "load", "done"}
        /\ exc = NoValue

C3_Witness ==
    /\ pc = "done"
    /\ ConfigPresent
    /\ ConfiguredPath = "custom.diff"
    /\ fs["custom.diff"] = "empty"
    /\ fs["pr_diff.txt"] = "short"
    /\ stdout = <<[line |-> "No diff content found, skipping review"]>>

\* C4: an apiType outside {chat, messages, response}, the empty string
\* included, makes callLlmApi raise a configuration error before any flavour
\* function is dispatched to: zero requests, and no fall back to chat.
C4_UnknownTypeRejected ==
    ~TypeRecognized =>
        /\ posts = 0
        /\ flavor = ""
        /\ pc \notin {"post", "write", "report"}
        /\ pc = "except" => exc = [type |-> "ValueError", apiType |-> apiType]

C4_Witness ==
    /\ pc = "done"
    /\ "LLM_API_TYPE" \in DOMAIN environ
    /\ environ["LLM_API_TYPE"] = ""
    /\ exc = [type |-> "ValueError", apiType |-> ""]
    /\ ErrorReported

\* C5: an adapter call with a recognized flavour issues exactly one POST
\* whatever its outcome; a run of main issues at most one, and exactly one
\* when the configuration is present, the diff non-empty and the flavour
\* recognized.
C5_ExactlyOnePost ==
    /\ posts <= 1
    /\ (pc \in {"write", "report", "except", "done"} /\ flavor # "") => posts = 1
    /\ (pc = "done" /\ ConfigPresent /\ DiffNonEmpty /\ TypeRecognized)
           => posts = 1

C5_Witness ==
    /\ pc = "done"
    /\ posts = 1
    /\ "status" \in DOMAIN response
    /\ response.status = 500
    /\ ErrorReported

\* the body of a 200 response that decoded
Decoded200 == "json" \in DOMAIN response

\* places in output[] holding an output_text block inside a message item
OutputTextBlocks(data) ==
    IF "output" \notin DOMAIN data
    THEN {}
    ELSE UNION { IF data.output[i].type = "message"
                    /\ "content" \in DOMAIN data.output[i]
                 THEN { <<i, j>> : j \in
                          { k \in 1..Len(data.output[i].content) :
                              data.output[i].content[k].type = "output_text" } }
                 ELSE {} : i \in 1..Len(data.output) }

\* the body lacks the field the flavour's success extraction reads
LacksField(f, data) ==
    CASE f = "chat" ->
            ~ /\ "choices" \in DOMAIN data
              /\ data.choices # <<>>
              /\ "message" \in DOMAIN data.choices[1]
              /\ "content" \in DOMAIN data.choices[1].message
      [] f = "messages" ->
            ~ /\ "content" \in DOMAIN data
              /\ data.content # <<>>
              /\ "text" \in DOMAIN data.content[1]
      [] f = "response" ->
            /\ "output_text" \notin DOMAIN data
            /\ \A h \in OutputTextBlocks(data) :
                  "text" \notin DOMAIN data.output[h[1]].content[h[2]]

\* the body lacks the list or block the flavour's extraction starts from
LacksEntry(f, data) ==
    CASE f = "chat" -> "choices" \notin DOMAIN data \/ data.choices = <<>>
      [] f = "messages" -> "content" \notin DOMAIN data \/ data.content = <<>>
      [] f = "response" ->
            "output_text" \notin DOMAIN data /\ OutputTextBlocks(data) = {}

ShapeErrorRaised ==
    /\ reviewContent = NoValue
    /\ "data" \in DOMAIN exc
    /\ exc.type = "Exception"
    /\ exc.data = response.json
    /\ resultFile = priorResult

\* C6 as claimed: a 200 response whose body lacks the field the extraction
\* reads fails the call with an error carrying the body, returns no text and
\* leaves no output file written.
C6_MissingFieldFails ==
    (Decoded200 /\ LacksField(flavor, response.json)) => ShapeErrorRaised

\* C6 as amended: the call fails that way exactly when the body lacks the
\* entry the extraction starts from (chat: a non-empty choices; messages: a
\* non-empty content; response: output_text or an output_text block of a
\* message item); when the entry is there and only the nested field is
\* missing, the call returns the empty string, which main writes.
C6_MissingEntryFails ==
    Decoded200 =>
        /\ LacksEntry(flavor, response.json) => ShapeErrorRaised
        /\ (~LacksEntry(flavor, response.json)
               /\ LacksField(flavor, response.json))
              => /\ reviewContent = Str("")
                 /\ (pc = "done" /\ cwdWritable)
                       => resultFile = [exists |-> TRUE, content |-> ""]

C6_Witness ==
    /\ pc = "done"
    /\ flavor = "chat"
    /\ Decoded200
    /\ response.json = [id |-> "r", choices |-> <<>>]
    /\ ShapeErrorRaised
    /\ ErrorReported

\* the first output_text block in scan order: items in order, then blocks
FirstBlock(data) ==
    CHOOSE h \in OutputTextBlocks(data) :
        \A g \in OutputTextBlocks(data) :
            h[1] < g[1] \/ (h[1] = g[1] /\ h[2] <= g[2])

BlockText(data, h) ==
    LET block == data.output[h[1]].content[h[2]]
    IN  IF "text" \in DOMAIN block THEN block.text ELSE Str("")

\* C7: for the response flavour, a 200 body yields the top-level output_text
\* when present; otherwise the text (empty if the block has none) of the
\* first output_text block met scanning output[] in order for message items
\* and their content[] in order; it fails only when there is no such block.
C7_FirstOutputText ==
    (extr.done /\ extr.apiType = "response") =>
        IF "output_text" \in DOMAIN extr.data
        THEN extr.result = Return(extr.data.output_text)
        ELSE IF OutputTextBlocks(extr.data) = {}
             THEN /\ ~extr.result.ok
                  /\ extr.result.exc.data = extr.data
             ELSE extr.result =
                      Return(BlockText(extr.data, FirstBlock(extr.data)))

C7_Witness ==
    /\ extr.done
    /\ extr.apiType = "response"
    /\ "output_text" \notin DOMAIN extr.data
    /\ \E g, h \in OutputTextBlocks(extr.data) :
          /\ g[1] < h[1]
          /\ g = FirstBlock(extr.data)
          /\ g[2] > 1
          /\ BlockText(extr.data, g) # BlockText(extr.data, h)
          /\ extr.result = Return(BlockText(extr.data, g))

\* C8: truncateDiff returns a diff no longer than maxChars unchanged; a
\* longer one becomes its first maxChars characters followed by the marker,
\* so the result is maxChars plus the marker's length long, which exceeds
\* maxChars; no result is longer than that.
C8_Truncate ==
    trunc.done =>
        LET diff == trunc.diff
            maxChars == trunc.maxChars
            result == trunc.result
            m == Len(TruncationMarker)
        IN  /\ Len(diff) <= maxChars => result = diff
            /\ Len(diff) > maxChars =>
                  /\ Len(result) = maxChars + m
                  /\ Len(result) > maxChars
                  /\ \A i \in 1..maxChars : result[i] = diff[i]
                  /\ \A k \in 1..m : result[maxChars + k] = TruncationMarker[k]
            /\ Len(result) <= maxChars + m

\* the same bound on the diff text main sends, maxChars being the default
SentDiffBounded ==
    sentDiff # NoValue =>
        /\ sentDiff.len <= DefaultMaxChars + Len(TruncationMarker)
        /\ sentDiff.marked <=> fs[PathRead] = "long"

SentDiffTruncated ==
    /\ sentDiff # NoValue
    /\ sentDiff.marked
    /\ sentDiff.len = DefaultMaxChars + Len(TruncationMarker)

C8_Witness ==
    /\ trunc.done
    /\ trunc.maxChars > 0
    /\ Len(trunc.diff) = trunc.maxChars + 1
    /\ Len(trunc.result) = trunc.maxChars + Len(TruncationMarker)

\* C9: every run of main ends by returning normally: no exception escapes
\* main, and an error raised during the run is reported as a diagnostic.
C9_NoExceptionEscapes ==
    /\ pc # "crashed"
    /\ (pc = "done" /\ exc # NoValue) => ErrorReported

Succeeded ==
    /\ \E i \in 1..Len(stdout) : stdout[i].line = "Review completed successfully!"
    /\ \A i \in 1..Len(stdout) : stdout[i].line # "Error calling LLM API"

\* C10: starting without review_result.md, at the end of a run the file
\* exists if and only if the run succeeded, and then holds exactly the text
\* the adapter returned; an error or a skip leaves no file, not even an empty
\* one.
C10_FileIffSuccess ==
    (pc \in {"done", "crashed"} /\ ~priorResult.exists) =>
        /\ resultFile.exists <=> Succeeded
        /\ resultFile.exists =>
              /\ "v" \in DOMAIN reviewContent
              /\ resultFile.content = reviewContent.v

=============================================================================
